---- MODULE Spec2Model ----
(***************************************************************************)
(* ERC-7930 Interoperable Addresses: the builder, the encoder, the         *)
(* checksum and the byte utilities of src/src/encoder.ts and utils.ts.     *)
(*                                                                         *)
(* Representation.                                                         *)
(*   Uint8Array  : a sequence of integers in 0..255.                       *)
(*   string      : a sequence of one-character strings.                    *)
(*   number      : an integer where the code only compares or stores it    *)
(*                 (chainType, version, lengths); the argument of          *)
(*                 numberToBytes is a non-negative integer written as its  *)
(*                 base-256 digits, most significant first, because the    *)
(*                 values of interest reach beyond 2^31.                   *)
(*   call result : Returned(v) or Thrown(e); Pending before the call.      *)
(***************************************************************************)
EXTENDS Integers, Sequences, FiniteSets, TLC

VARIABLES params, created, interopAddress, encoded, checksumInput, checksum,
          otherAddress, otherChecksum, utilCall, utilResult,
          roundTrip, oneStep, nameArgs, name, formatted, callerBuffer, before

vars == <<params, created, interopAddress, encoded, checksumInput, checksum,
          otherAddress, otherChecksum, utilCall, utilResult,
          roundTrip, oneStep, nameArgs, name, formatted, callerBuffer, before>>

\* the variables of the operations on names, on one-step encoding and on the
\* caller's buffers
laterVars == <<roundTrip, oneStep, nameArgs, name, formatted, callerBuffer, before>>

-----------------------------------------------------------------------------
(* Bounds of the model *)

\* longest byte sequence enumerated byte by byte
MaxShort == 2
\* most base-256 digits of a number handed to numberToBytes
MaxDigits == 5
\* largest length handed to numberToBytes
MaxLength == 6
\* longest string handed to hexToBytes character by character
MaxHexLen == 4

-----------------------------------------------------------------------------
(* Program constants *)

VERSION_1 == 1
MaxFieldLength == 255
MaxChainType == 65535

ErrBothEmpty == "At least one of chainReference or address must be provided"
ErrChainReferenceLength == "Chain reference length cannot exceed 255 bytes"
ErrAddressLength == "Address length cannot exceed 255 bytes"
ErrChainType == "Chain type must be a 2-byte value (0-65535)"
\* the error of the underlying hex decoder
DecodeError == "DecodeError"

-----------------------------------------------------------------------------
(* Call results *)

Pending == [status |-> "pending"]
Returned(v) == [status |-> "returned", value |-> v]
Thrown(e) == [status |-> "thrown", error |-> e]

-----------------------------------------------------------------------------
(* Byte utilities *)

RECURSIVE concatBytes(_)
concatBytes(arrays) ==
  IF arrays = <<>> THEN <<>>
  ELSE Head(arrays) \o concatBytes(Tail(arrays))

\* ToInt32: the low 32 bits of a non-negative number, as the four bytes of
\* the two's complement word, most significant first
ToInt32(num) ==
  LET padded == <<0, 0, 0, 0>> \o num
      n == Len(padded)
  IN  SubSeq(padded, n - 3, n)

\* (word & 0xff) on a 32-bit word
AndFF(word) == word[4]

\* (word >> 8) on a 32-bit word: arithmetic shift, the sign bit is copied in
ShiftRight8(word) ==
  <<IF word[1] >= 128 THEN 255 ELSE 0, word[1], word[2], word[3]>>

\* the loop of numberToBytes: bytes[i] = num & 0xff; num = num >> 8,
\* for i from length-1 down to 0
RECURSIVE numberToBytesLoop(_, _)
numberToBytesLoop(word, i) ==
  IF i = 0 THEN <<>>
  ELSE Append(numberToBytesLoop(ShiftRight8(word), i - 1), AndFF(word))

numberToBytes(num, length) == numberToBytesLoop(ToInt32(num), length)

\* minimal big-endian bytes of a non-negative integer, 0 -> empty
RECURSIVE numberToMinBytes(_)
numberToMinBytes(num) ==
  IF num = 0 THEN <<>>
  ELSE Append(numberToMinBytes(num \div 256), num % 256)

\* the number n as handed to numberToBytes (base-256 digits)
Num(n) == numberToMinBytes(n)

HexLower ==
  <<"0", "1", "2", "3", "4", "5", "6", "7", "8", "9", "a", "b", "c", "d", "e", "f">>

HexUpper ==
  <<"0", "1", "2", "3", "4", "5", "6", "7", "8", "9", "A", "B", "C", "D", "E", "F">>

IsHexDigit(c) == \E k \in 1..16 : c = HexLower[k] \/ c = HexUpper[k]

HexValue(c) == (CHOOSE k \in 1..16 : c = HexLower[k] \/ c = HexUpper[k]) - 1

\* hexToBytes of @noble/hashes/utils
nobleFromHex(hex) ==
  IF Len(hex) % 2 # 0 THEN Thrown(DecodeError)
  ELSE IF \E i \in 1..Len(hex) : ~IsHexDigit(hex[i]) THEN Thrown(DecodeError)
  ELSE Returned([i \in 1..(Len(hex) \div 2) |->
                   16 * HexValue(hex[2 * i - 1]) + HexValue(hex[2 * i])])

\* bytesToHex of @noble/hashes/utils: two lowercase digits per byte
nobleToHex(bytes) ==
  [i \in 1..(2 * Len(bytes)) |->
     IF i % 2 = 1 THEN HexLower[(bytes[(i + 1) \div 2] \div 16) + 1]
     ELSE HexLower[(bytes[i \div 2] % 16) + 1]]

startsWith0x(hex) ==
  Len(hex) >= 2 /\ hex[1] = "0" /\ (hex[2] = "x" \/ hex[2] = "X")

\* hexToBytes that strips the lowercase prefix only
hexToBytes_LowerPrefixOnly(hex) ==
  LET lower == Len(hex) >= 2 /\ hex[1] = "0" /\ hex[2] = "x"
      cleanHex == IF lower THEN SubSeq(hex, 3, Len(hex)) ELSE hex
  IN  nobleFromHex(cleanHex)

hexToBytes(hex) ==
  LET cleanHex == IF startsWith0x(hex) THEN SubSeq(hex, 3, Len(hex)) ELSE hex
  IN  nobleFromHex(cleanHex)

toUpperCaseChar(c) ==
  IF \E k \in 11..16 : c = HexLower[k]
  THEN HexUpper[CHOOSE k \in 11..16 : c = HexLower[k]]
  ELSE IF c = "x" THEN "X" ELSE c

toUpperCase(str) == [i \in 1..Len(str) |-> toUpperCaseChar(str[i])]

\* bytesToHex without the conversion to uppercase
bytesToHex_NoUpperCase(bytes, prefix) ==
  LET hex == nobleToHex(bytes)
  IN  IF prefix THEN <<"0", "x">> \o hex ELSE hex

bytesToHex(bytes, prefix) ==
  LET hex == toUpperCase(nobleToHex(bytes))
  IN  IF prefix THEN <<"0", "x">> \o hex ELSE hex

\* a call of bytesToHex with the second argument "true", "false" or
\* "omitted" (prefix: boolean = true)
bytesToHexCall(bytes, prefixArg) ==
  bytesToHex(bytes, IF prefixArg = "omitted" THEN TRUE ELSE prefixArg = "true")

\* keccak_256 of @noble/hashes: an opaque 32-byte digest of the data.  The
\* model keeps only that it is a function of its input bytes, of their order
\* and of their number.
RECURSIVE Absorb(_, _, _)
Absorb(data, lo, hi) ==
  IF lo > hi THEN 0
  ELSE IF lo = hi THEN ((data[lo] + 1) * (lo * lo + 3 * lo + 11)) % 65521
  ELSE LET mid == (lo + hi) \div 2
       IN  (Absorb(data, lo, mid) + Absorb(data, mid + 1, hi)) % 65521

keccak256(data) ==
  LET h == Absorb(data, 1, Len(data)) + Len(data)
  IN  [i \in 1..32 |-> ((h + i) * (2 * i + 1) + (h \div 256)) % 256]

-----------------------------------------------------------------------------
(* Address Builder *)

Undefined == [type |-> "undefined"]
NumberValue(n) == [type |-> "number", number |-> n]
StringValue(str) == [type |-> "string", string |-> str]
Uint8Array(bytes) == [type |-> "Uint8Array", bytes |-> bytes]

\* the normalization with a number written in a fixed width of 4 bytes
normalizeChainReference_FixedWidth(chainReference) ==
  IF chainReference.type = "undefined" THEN Returned(<<>>)
  ELSE IF chainReference.type = "number"
       THEN Returned(numberToBytes(Num(chainReference.number), 4))
  ELSE Returned(chainReference.bytes)

\* the normalization with the number 0 written as one zero byte
normalizeChainReference_ZeroByte(chainReference) ==
  IF chainReference.type = "undefined" THEN Returned(<<>>)
  ELSE IF chainReference.type = "number"
       THEN IF chainReference.number = 0 THEN Returned(<<0>>)
            ELSE Returned(numberToMinBytes(chainReference.number))
  ELSE Returned(chainReference.bytes)

\* encoder.ts 36-44: chainReference to Uint8Array
normalizeChainReference(chainReference) ==
  IF chainReference.type = "undefined" THEN Returned(<<>>)
  ELSE IF chainReference.type = "number"
       THEN Returned(numberToMinBytes(chainReference.number))
  ELSE Returned(chainReference.bytes)

\* encoder.ts 46-54: address to Uint8Array
normalizeAddress(address) ==
  IF address.type = "undefined" THEN Returned(<<>>)
  ELSE IF address.type = "string" THEN hexToBytes(address.string)
  ELSE Returned(address.bytes)

\* the checks with the length limits off by one
validateAndBuild_OffByOne(chainType, chainReference, address) ==
  IF Len(chainReference) = 0 /\ Len(address) = 0 THEN Thrown(ErrBothEmpty)
  ELSE IF Len(chainReference) >= MaxFieldLength
       THEN Thrown(ErrChainReferenceLength)
  ELSE IF Len(address) >= MaxFieldLength THEN Thrown(ErrAddressLength)
  ELSE IF chainType < 0 \/ chainType > MaxChainType THEN Thrown(ErrChainType)
  ELSE Returned([version |-> VERSION_1, chainType |-> chainType,
                 chainReference |-> chainReference, address |-> address])

\* the checks with the chainType check made first
validateAndBuild_ChainTypeFirst(chainType, chainReference, address) ==
  IF chainType < 0 \/ chainType > MaxChainType THEN Thrown(ErrChainType)
  ELSE IF Len(chainReference) = 0 /\ Len(address) = 0 THEN Thrown(ErrBothEmpty)
  ELSE IF Len(chainReference) > MaxFieldLength
       THEN Thrown(ErrChainReferenceLength)
  ELSE IF Len(address) > MaxFieldLength THEN Thrown(ErrAddressLength)
  ELSE Returned([version |-> VERSION_1, chainType |-> chainType,
                 chainReference |-> chainReference, address |-> address])

\* the checks with the chain reference message used for the address as well
validateAndBuild_SameMessage(chainType, chainReference, address) ==
  IF Len(chainReference) = 0 /\ Len(address) = 0 THEN Thrown(ErrBothEmpty)
  ELSE IF Len(chainReference) > MaxFieldLength
       THEN Thrown(ErrChainReferenceLength)
  ELSE IF Len(address) > MaxFieldLength THEN Thrown(ErrChainReferenceLength)
  ELSE IF chainType < 0 \/ chainType > MaxChainType THEN Thrown(ErrChainType)
  ELSE Returned([version |-> VERSION_1, chainType |-> chainType,
                 chainReference |-> chainReference, address |-> address])

\* the result with the two byte fields exchanged
validateAndBuild_FieldsSwapped(chainType, chainReference, address) ==
  IF Len(chainReference) = 0 /\ Len(address) = 0 THEN Thrown(ErrBothEmpty)
  ELSE IF Len(chainReference) > MaxFieldLength
       THEN Thrown(ErrChainReferenceLength)
  ELSE IF Len(address) > MaxFieldLength THEN Thrown(ErrAddressLength)
  ELSE IF chainType < 0 \/ chainType > MaxChainType THEN Thrown(ErrChainType)
  ELSE Returned([version |-> VERSION_1, chainType |-> chainType,
                 chainReference |-> address, address |-> chainReference])

\* encoder.ts 56-79: the checks, in the order of the code, and the result
validateAndBuild(chainType, chainReference, address) ==
  IF Len(chainReference) = 0 /\ Len(address) = 0 THEN Thrown(ErrBothEmpty)
  ELSE IF Len(chainReference) > MaxFieldLength
       THEN Thrown(ErrChainReferenceLength)
  ELSE IF Len(address) > MaxFieldLength THEN Thrown(ErrAddressLength)
  ELSE IF chainType < 0 \/ chainType > MaxChainType THEN Thrown(ErrChainType)
  ELSE Returned([version |-> VERSION_1, chainType |-> chainType,
                 chainReference |-> chainReference, address |-> address])

\* encoder.ts 43 and 53: a Uint8Array argument is stored in the Address as
\* it is, without a copy, so that the field and the caller's buffer are one
\* object
SharedFields(p) ==
  {f \in {"chainReference", "address"} : p[f].type = "Uint8Array"}

\* the builder with the chainType check made before the normalization
createInteroperableAddress_ValidateFirst(p) ==
  LET chainReference == normalizeChainReference(p.chainReference)
      address == normalizeAddress(p.address)
  IN  IF p.chainType < 0 \/ p.chainType > MaxChainType THEN Thrown(ErrChainType)
      ELSE IF chainReference.status = "thrown" THEN chainReference
      ELSE IF address.status = "thrown" THEN address
      ELSE validateAndBuild(p.chainType, chainReference.value, address.value)

createInteroperableAddress(p) ==
  LET chainReference == normalizeChainReference(p.chainReference)
      address == normalizeAddress(p.address)
  IN  IF chainReference.status = "thrown" THEN chainReference
      ELSE IF address.status = "thrown" THEN address
      ELSE validateAndBuild(p.chainType, chainReference.value, address.value)

-----------------------------------------------------------------------------
(* Encoder and checksum *)

\* the encoder with the chainType written in one byte
encodeInteroperableAddress_ShortChainType(a) ==
  LET version == numberToBytes(Num(a.version), 2)
      chainType == numberToBytes(Num(a.chainType), 1)
      chainReferenceLength == numberToBytes(Num(Len(a.chainReference)), 1)
      addressLength == numberToBytes(Num(Len(a.address)), 1)
  IN  concatBytes(<<version, chainType, chainReferenceLength,
                    a.chainReference, addressLength, a.address>>)

\* the encoder without the address length byte
encodeInteroperableAddress_NoAddressLength(a) ==
  LET version == numberToBytes(Num(a.version), 2)
      chainType == numberToBytes(Num(a.chainType), 2)
      chainReferenceLength == numberToBytes(Num(Len(a.chainReference)), 1)
  IN  concatBytes(<<version, chainType, chainReferenceLength,
                    a.chainReference, a.address>>)

\* the encoder with the address length written before the chain reference
encodeInteroperableAddress_LengthsFirst(a) ==
  LET version == numberToBytes(Num(a.version), 2)
      chainType == numberToBytes(Num(a.chainType), 2)
      chainReferenceLength == numberToBytes(Num(Len(a.chainReference)), 1)
      addressLength == numberToBytes(Num(Len(a.address)), 1)
  IN  concatBytes(<<version, chainType, chainReferenceLength, addressLength,
                    a.chainReference, a.address>>)

encodeInteroperableAddress(a) ==
  LET version == numberToBytes(Num(a.version), 2)
      chainType == numberToBytes(Num(a.chainType), 2)
      chainReferenceLength == numberToBytes(Num(Len(a.chainReference)), 1)
      addressLength == numberToBytes(Num(Len(a.address)), 1)
  IN  concatBytes(<<version, chainType, chainReferenceLength,
                    a.chainReference, addressLength, a.address>>)

\* the hashed bytes with the version left in
checksumInputOf_WithVersion(a) ==
  LET version == numberToBytes(Num(a.version), 2)
      chainType == numberToBytes(Num(a.chainType), 2)
      chainReferenceLength == numberToBytes(Num(Len(a.chainReference)), 1)
      addressLength == numberToBytes(Num(Len(a.address)), 1)
  IN  concatBytes(<<version, chainType, chainReferenceLength,
                    a.chainReference, addressLength, a.address>>)

\* encoder.ts 119-129: the bytes that are hashed
checksumInputOf(a) ==
  LET chainType == numberToBytes(Num(a.chainType), 2)
      chainReferenceLength == numberToBytes(Num(Len(a.chainReference)), 1)
      addressLength == numberToBytes(Num(Len(a.address)), 1)
  IN  concatBytes(<<chainType, chainReferenceLength, a.chainReference,
                    addressLength, a.address>>)

\* the checksum rendered with the 0x prefix
calculateChecksum_Prefixed(a) ==
  LET hash == keccak256(checksumInputOf(a))
      checksumBytes == SubSeq(hash, 1, 4)
  IN  bytesToHex(checksumBytes, TRUE)

calculateChecksum(a) ==
  LET hash == keccak256(checksumInputOf(a))
      checksumBytes == SubSeq(hash, 1, 4)
  IN  bytesToHex(checksumBytes, FALSE)

-----------------------------------------------------------------------------
(* Naming *)

\* the name with the two display strings exchanged
toInteroperableName_Swapped(a, chainString, addressString) ==
  [address |-> chainString, chain |-> addressString,
   checksum |-> calculateChecksum(a)]

toInteroperableName(a, chainString, addressString) ==
  [address |-> addressString, chain |-> chainString,
   checksum |-> calculateChecksum(a)]

formatInteroperableName(n) ==
  n.address \o <<"@">> \o n.chain \o <<"#">> \o n.checksum

-----------------------------------------------------------------------------
(* Facade *)

\* the facade that returns no bytes instead of passing the error on
createAndEncode_Swallow(p) ==
  LET interopAddress_ == createInteroperableAddress(p)
  IN  IF interopAddress_.status = "thrown" THEN Returned(<<>>)
      ELSE Returned(encodeInteroperableAddress(interopAddress_.value))

createAndEncode(p) ==
  LET interopAddress_ == createInteroperableAddress(p)
  IN  IF interopAddress_.status = "thrown" THEN interopAddress_
      ELSE Returned(encodeInteroperableAddress(interopAddress_.value))

-----------------------------------------------------------------------------
(* Inputs *)

Absent == [status |-> "absent"]
Given(v) == [status |-> "given", value |-> v]

ByteSamples == {0, 255}
DigitSamples == {0, 1, 128, 255}

ShortBytes == UNION {[1..n -> ByteSamples] : n \in 0..MaxShort}

\* a byte sequence of n bytes that are not all equal
Pattern(n) == [i \in 1..n |-> (i * 7) % 256]

\* a string of 2n hex digits of both cases
HexPattern(n) ==
  [i \in 1..(2 * n) |-> IF i % 3 = 0 THEN HexUpper[(i % 16) + 1]
                         ELSE HexLower[((i * 5) % 16) + 1]]

LongBytes == {Pattern(MaxFieldLength), Pattern(MaxFieldLength + 1)}

ChainTypeSamples == {-1, 0, 2, MaxChainType, MaxChainType + 1}

NumberSamples == {0, 1, 137, 255, 256, 42161, 65536, 16777215, 2147483647}

StringSamples ==
  { <<>>, <<"0", "x">>, <<"0", "X">>,
    <<"0", "x", "A", "b">>, <<"0", "X", "0", "0">>, <<"a", "B">>,
    <<"d", "8", "d", "A", "6", "B">>,
    <<"0", "x", "1">>, <<"a">>, <<"0", "x", "g", "0">>, <<"z", "z">>,
    <<"0", "x", "0", "x", "1", "2">>,
    HexPattern(MaxFieldLength), <<"0", "x">> \o HexPattern(MaxFieldLength),
    HexPattern(MaxFieldLength + 1) }

ChainReferenceInputs ==
  {Undefined} \cup {NumberValue(n) : n \in NumberSamples}
              \cup {Uint8Array(b) : b \in ShortBytes \cup LongBytes}

AddressInputs ==
  {Undefined} \cup {StringValue(str) : str \in StringSamples}
              \cup {Uint8Array(b) : b \in ShortBytes \cup LongBytes}

ParamsInputs ==
  [chainType : ChainTypeSamples, chainReference : ChainReferenceInputs,
   address : AddressInputs]

VersionSamples == {VERSION_1, 2, 258}

\* Address objects written by the caller as object literals
AddressLiterals ==
  [version : VersionSamples,
   chainType : {0, 2, 258, MaxChainType, MaxChainType + 1},
   chainReference : ShortBytes \cup LongBytes,
   address : {<<>>, <<1>>, <<0, 255>>} \cup LongBytes]

\* numbers as base-256 digits without a leading zero digit
Numbers ==
  UNION {{d \in [1..n -> DigitSamples] : n > 0 => d[1] # 0} : n \in 0..MaxDigits}

HexByteSamples == ByteSamples \cup {171}

HexBytes ==
  UNION {[1..n -> HexByteSamples] : n \in 0..MaxShort} \cup {Pattern(MaxFieldLength)}

HexAlphabet == {"0", "1", "a", "A", "x", "X", "g"}

HexStrings == UNION {[1..n -> HexAlphabet] : n \in 0..MaxHexLen}

\* display strings: opaque labels, the empty one and one made of separators
ChainStrings == {<<"e", "i", "p", "1", "5", "5", ":", "1">>, <<"#", "@">>}

AddressStrings == {<<>>, <<"0", "x", "d", "8">>}

UtilCalls ==
  [fn : {"numberToBytes"}, num : Numbers, length : 0..MaxLength]
    \cup [fn : {"numberToMinBytes"}, integer : NumberSamples]
    \cup [fn : {"bytesToHex"}, data : HexBytes,
          prefixArg : {"true", "false", "omitted"}]
    \cup [fn : {"hexToBytes"}, hex : HexStrings]

-----------------------------------------------------------------------------
(* The caller: one input, then the operations applied to it.  A caller    *)
(* that builds a name does so right after the checksum and does nothing   *)
(* else with the Address; the operations are pure, so that the order of   *)
(* the calls changes no result.                                           *)

Init ==
  /\ \/ /\ params \in {Given(p) : p \in ParamsInputs}
        /\ interopAddress = Absent
        /\ utilCall = Absent
     \/ /\ params = Absent
        /\ interopAddress \in {Given(a) : a \in AddressLiterals}
        /\ utilCall = Absent
     \/ /\ params = Absent
        /\ interopAddress = Absent
        /\ utilCall \in {Given(c) : c \in UtilCalls}
  /\ created = Pending
  /\ encoded = Pending
  /\ checksumInput = Pending
  /\ checksum = Pending
  /\ otherAddress = Absent
  /\ otherChecksum = Pending
  /\ utilResult = Pending
  /\ roundTrip = Pending
  /\ oneStep = Pending
  /\ nameArgs = Absent
  /\ name = Pending
  /\ formatted = Pending
  /\ callerBuffer = params
  /\ before = Absent

\* const interopAddress = createInteroperableAddress(params)
Create ==
  /\ params.status = "given"
  /\ created = Pending
  /\ created' = createInteroperableAddress(params.value)
  /\ interopAddress' = IF created'.status = "returned"
                        THEN Given(created'.value) ELSE interopAddress
  /\ UNCHANGED <<params, encoded, checksumInput, checksum, otherAddress,
                 otherChecksum, utilCall, utilResult>>
  /\ UNCHANGED laterVars

\* const encoded = encodeInteroperableAddress(interopAddress)
Encode ==
  /\ interopAddress.status = "given"
  /\ encoded = Pending
  /\ name = Pending
  /\ encoded' = Returned(encodeInteroperableAddress(interopAddress.value))
  /\ UNCHANGED <<params, created, interopAddress, checksumInput, checksum,
                 otherAddress, otherChecksum, utilCall, utilResult>>
  /\ UNCHANGED laterVars

\* const checksum = calculateChecksum(interopAddress)
CalculateChecksum ==
  /\ interopAddress.status = "given"
  /\ checksum = Pending
  /\ checksumInput' = Returned(checksumInputOf(interopAddress.value))
  /\ checksum' = Returned(calculateChecksum(interopAddress.value))
  /\ UNCHANGED <<params, created, interopAddress, encoded, otherAddress,
                 otherChecksum, utilCall, utilResult>>
  /\ UNCHANGED laterVars

\* calculateChecksum({...interopAddress, version: v})
ChecksumOtherVersion ==
  /\ interopAddress.status = "given"
  /\ otherChecksum = Pending
  /\ name = Pending
  /\ before = Absent
  /\ \E v \in VersionSamples :
        /\ v # interopAddress.value.version
        /\ otherAddress' = Given([interopAddress.value EXCEPT !.version = v])
  /\ otherChecksum' = Returned(calculateChecksum(otherAddress'.value))
  /\ UNCHANGED <<params, created, interopAddress, encoded, checksumInput,
                 checksum, utilCall, utilResult>>
  /\ UNCHANGED laterVars

\* numberToBytes(num, length)
NumberToBytes ==
  /\ utilCall.status = "given"
  /\ utilCall.value.fn = "numberToBytes"
  /\ utilResult = Pending
  /\ utilResult' = Returned(numberToBytes(utilCall.value.num,
                                          utilCall.value.length))
  /\ UNCHANGED <<params, created, interopAddress, encoded, checksumInput,
                 checksum, otherAddress, otherChecksum, utilCall>>
  /\ UNCHANGED laterVars

\* numberToMinBytes(num)
NumberToMinBytes ==
  /\ utilCall.status = "given"
  /\ utilCall.value.fn = "numberToMinBytes"
  /\ utilResult = Pending
  /\ utilResult' = Returned(numberToMinBytes(utilCall.value.integer))
  /\ UNCHANGED <<params, created, interopAddress, encoded, checksumInput,
                 checksum, otherAddress, otherChecksum, utilCall>>
  /\ UNCHANGED laterVars

\* bytesToHex(data, prefix)
BytesToHex ==
  /\ utilCall.status = "given"
  /\ utilCall.value.fn = "bytesToHex"
  /\ utilResult = Pending
  /\ utilResult' = Returned(bytesToHexCall(utilCall.value.data,
                                           utilCall.value.prefixArg))
  /\ UNCHANGED <<params, created, interopAddress, encoded, checksumInput,
                 checksum, otherAddress, otherChecksum, utilCall>>
  /\ UNCHANGED laterVars

\* hexToBytes(hex)
HexToBytes ==
  /\ utilCall.status = "given"
  /\ utilCall.value.fn = "hexToBytes"
  /\ utilResult = Pending
  /\ utilResult' = hexToBytes(utilCall.value.hex)
  /\ UNCHANGED <<params, created, interopAddress, encoded, checksumInput,
                 checksum, otherAddress, otherChecksum, utilCall>>
  /\ UNCHANGED laterVars

\* hexToBytes(bytesToHex(data, prefix))
HexToBytesBack ==
  /\ utilCall.status = "given"
  /\ utilCall.value.fn = "bytesToHex"
  /\ utilResult.status = "returned"
  /\ roundTrip = Pending
  /\ roundTrip' = hexToBytes(utilResult.value)
  /\ UNCHANGED <<params, created, interopAddress, encoded, checksumInput,
                 checksum, otherAddress, otherChecksum, utilCall, utilResult>>
  /\ UNCHANGED <<oneStep, nameArgs, name, formatted, callerBuffer, before>>

\* const encoded = createAndEncode(params)
CreateAndEncode ==
  /\ params.status = "given"
  /\ oneStep = Pending
  /\ checksum = Pending
  /\ otherChecksum = Pending
  /\ name = Pending
  /\ before = Absent
  /\ oneStep' = createAndEncode(params.value)
  /\ UNCHANGED <<params, created, interopAddress, encoded, checksumInput,
                 checksum, otherAddress, otherChecksum, utilCall, utilResult>>
  /\ UNCHANGED <<roundTrip, nameArgs, name, formatted, callerBuffer, before>>

\* const name = toInteroperableName(interopAddress, chainString, addressString)
ToInteroperableName ==
  /\ interopAddress.status = "given"
  /\ name = Pending
  /\ checksum.status = "returned"
  /\ encoded = Pending
  /\ otherChecksum = Pending
  /\ oneStep = Pending
  /\ before = Absent
  /\ \E chainString \in ChainStrings, addressString \in AddressStrings :
        /\ nameArgs' = Given([chainString |-> chainString,
                              addressString |-> addressString])
        /\ name' = Returned(toInteroperableName(interopAddress.value,
                                                chainString, addressString))
  /\ UNCHANGED <<params, created, interopAddress, encoded, checksumInput,
                 checksum, otherAddress, otherChecksum, utilCall, utilResult>>
  /\ UNCHANGED <<roundTrip, oneStep, formatted, callerBuffer, before>>

\* formatInteroperableName(name)
FormatInteroperableName ==
  /\ name.status = "returned"
  /\ formatted = Pending
  /\ formatted' = Returned(formatInteroperableName(name.value))
  /\ UNCHANGED <<params, created, interopAddress, encoded, checksumInput,
                 checksum, otherAddress, otherChecksum, utilCall, utilResult>>
  /\ UNCHANGED <<roundTrip, oneStep, nameArgs, name, callerBuffer, before>>

\* the caller, after the Address was built, encoded and checksummed, writes
\* to a buffer it passed in: buffer[0] = buffer[0] + 1.  The write lands in
\* the Address field that shares the buffer; the results obtained so far
\* are kept in before, and the operations can be called again.
CallerWrite ==
  /\ params.status = "given"
  /\ created.status = "returned"
  /\ encoded.status = "returned"
  /\ checksum.status = "returned"
  /\ otherChecksum = Pending
  /\ oneStep = Pending
  /\ name = Pending
  /\ before = Absent
  /\ \E f \in {"chainReference", "address"} :
        /\ callerBuffer.value[f].type = "Uint8Array"
        /\ Len(callerBuffer.value[f].bytes) > 0
        /\ LET old == callerBuffer.value[f].bytes
               new == [old EXCEPT ![1] = (old[1] + 1) % 256]
           IN  /\ callerBuffer' =
                     Given([callerBuffer.value EXCEPT ![f] = Uint8Array(new)])
               /\ interopAddress' =
                     IF f \in SharedFields(params.value)
                     THEN Given([interopAddress.value EXCEPT ![f] = new])
                     ELSE interopAddress
  /\ before' = Given([encoded |-> encoded, checksum |-> checksum])
  /\ encoded' = Pending
  /\ checksumInput' = Pending
  /\ checksum' = Pending
  /\ UNCHANGED <<params, created, otherAddress, otherChecksum, utilCall,
                 utilResult>>
  /\ UNCHANGED <<roundTrip, oneStep, nameArgs, name, formatted>>

Next ==
  \/ Create
  \/ Encode
  \/ CalculateChecksum
  \/ ChecksumOtherVersion
  \/ NumberToBytes
  \/ NumberToMinBytes
  \/ BytesToHex
  \/ HexToBytes
  \/ HexToBytesBack
  \/ CreateAndEncode
  \/ ToInteroperableName
  \/ FormatInteroperableName
  \/ CallerWrite

Spec == Init /\ [][Next]_vars

-----------------------------------------------------------------------------
(* Vocabulary of the properties *)

\* a valid Address: version 1, chainType of 2 bytes, fields of at most 255 bytes
ValidAddress(a) ==
  /\ a.version = 1
  /\ 0 <= a.chainType /\ a.chainType <= 65535
  /\ Len(a.chainReference) <= 255
  /\ Len(a.address) <= 255

\* the two big-endian bytes of n, for 0 <= n <= 65535
BigEndian2(n) == <<n \div 256, n % 256>>

\* the value of a big-endian byte sequence
RECURSIVE BigEndianValue(_)
BigEndianValue(bytes) ==
  IF bytes = <<>> THEN 0
  ELSE 256 * BigEndianValue(SubSeq(bytes, 1, Len(bytes) - 1)) + bytes[Len(bytes)]

\* the address string of the params, when one is given, is well-formed hex
WellFormedAddress(p) ==
  p.address.type = "string" => hexToBytes(p.address.string).status = "returned"

\* the fields after normalization, as section 4.2 states them
NormalChainReference(p) ==
  CASE p.chainReference.type = "undefined" -> <<>>
    [] p.chainReference.type = "number" -> numberToMinBytes(p.chainReference.number)
    [] p.chainReference.type = "Uint8Array" -> p.chainReference.bytes

NormalAddress(p) ==
  CASE p.address.type = "undefined" -> <<>>
    [] p.address.type = "string" -> hexToBytes(p.address.string).value
    [] p.address.type = "Uint8Array" -> p.address.bytes

CreateCalled == params.status = "given" /\ created # Pending

-----------------------------------------------------------------------------
(* C1 *)

\* C1: for every valid Address the encoder returns exactly version (2 bytes,
\* big-endian), chainType (2 bytes, big-endian), len(chainReference),
\* chainReference, len(address), address, in that order and nothing else.
C1_EncodingLayout ==
  (encoded.status = "returned" /\ ValidAddress(interopAddress.value)) =>
    LET a == interopAddress.value
    IN  encoded.value =
          BigEndian2(a.version) \o BigEndian2(a.chainType)
            \o <<Len(a.chainReference)>> \o a.chainReference
            \o <<Len(a.address)>> \o a.address

C1_Witness ==
  /\ encoded.status = "returned"
  /\ ValidAddress(interopAddress.value)
  /\ interopAddress.value.chainType = 65535
  /\ Len(interopAddress.value.chainReference) = 255
  /\ interopAddress.value.address = <<0, 255>>

-----------------------------------------------------------------------------
(* C2 *)

\* C2: with a well-formed address string, the builder succeeds if and only if
\* the normalized chainReference and address are not both empty, each is at
\* most 255 bytes long and 0 <= chainType <= 65535.
C2_SuccessIff ==
  (CreateCalled /\ WellFormedAddress(params.value)) =>
    LET p == params.value
        cr == NormalChainReference(p)
        ad == NormalAddress(p)
    IN  (created.status = "returned") <=>
          /\ ~(Len(cr) = 0 /\ Len(ad) = 0)
          /\ Len(cr) <= 255
          /\ Len(ad) <= 255
          /\ 0 <= p.chainType /\ p.chainType <= 65535

\* a chainReference of exactly 255 bytes and chainType 65535 succeed
C2_Witness ==
  /\ CreateCalled
  /\ created.status = "returned"
  /\ Len(created.value.chainReference) = 255
  /\ created.value.chainType = 65535
  /\ params.value.address.type = "string"

-----------------------------------------------------------------------------
(* C3 *)

\* C3: after normalization the builder raises the error of the first failing
\* check in the order both-empty, chainReference length, address length,
\* chainType range.
C3_FirstFailingCheck ==
  (CreateCalled /\ WellFormedAddress(params.value)) =>
    LET p == params.value
        cr == NormalChainReference(p)
        ad == NormalAddress(p)
        bothEmpty == Len(cr) = 0 /\ Len(ad) = 0
        longReference == Len(cr) > 255
        longAddress == Len(ad) > 255
        badChainType == p.chainType < 0 \/ p.chainType > 65535
    IN  /\ bothEmpty => created = Thrown(ErrBothEmpty)
        /\ (~bothEmpty /\ longReference) => created = Thrown(ErrChainReferenceLength)
        /\ (~bothEmpty /\ ~longReference /\ longAddress) =>
              created = Thrown(ErrAddressLength)
        /\ (~bothEmpty /\ ~longReference /\ ~longAddress /\ badChainType) =>
              created = Thrown(ErrChainType)

\* a 256-byte chainReference, a 256-byte address and chainType 65536
C3_Witness ==
  /\ CreateCalled
  /\ params.value.chainType = 65536
  /\ params.value.chainReference.type = "Uint8Array"
  /\ Len(params.value.chainReference.bytes) = 256
  /\ params.value.address.type = "Uint8Array"
  /\ Len(params.value.address.bytes) = 256
  /\ created = Thrown(ErrChainReferenceLength)

-----------------------------------------------------------------------------
(* C4 *)

\* the four message texts of section 4.2 of the specification
SpecMessages ==
  { "at least one of chainReference or address must be provided",
    "chain reference length exceeds 255 bytes",
    "address length exceeds 255 bytes",
    "chain type must fit in 2 bytes" }

\* C4 as stated: every validation failure of the builder carries one of the
\* four message texts of section 4.2.
C4_SpecMessages ==
  (CreateCalled /\ WellFormedAddress(params.value) /\ created.status = "thrown")
    => created.error \in SpecMessages

\* C4 as amended: every validation failure of the builder carries exactly one
\* of the four message texts of the code, each for its own check.
C4_CodeMessages ==
  (CreateCalled /\ WellFormedAddress(params.value) /\ created.status = "thrown") =>
    LET p == params.value
        cr == NormalChainReference(p)
        ad == NormalAddress(p)
    IN  /\ created.error \in
              { "At least one of chainReference or address must be provided",
                "Chain reference length cannot exceed 255 bytes",
                "Address length cannot exceed 255 bytes",
                "Chain type must be a 2-byte value (0-65535)" }
        /\ created.error = "At least one of chainReference or address must be provided"
              <=> (Len(cr) = 0 /\ Len(ad) = 0)
        /\ created.error = "Chain reference length cannot exceed 255 bytes"
              <=> Len(cr) > 255
        /\ created.error = "Address length cannot exceed 255 bytes"
              <=> (Len(cr) <= 255 /\ Len(ad) > 255)
        /\ created.error = "Chain type must be a 2-byte value (0-65535)"
              => (p.chainType < 0 \/ p.chainType > 65535)

C4_Witness ==
  /\ CreateCalled
  /\ created = Thrown("Address length cannot exceed 255 bytes")
  /\ params.value.address.type = "string"

-----------------------------------------------------------------------------
(* C5 *)

\* C5: a successful builder returns version 1, the chainType of the input and
\* the normalized chainReference and address (absent -> empty, number ->
\* numberToMinBytes, string -> hexToBytes, raw bytes -> the same bytes).
C5_ReturnedFields ==
  (CreateCalled /\ created.status = "returned") =>
    LET p == params.value
    IN  /\ created.value.version = 1
        /\ created.value.chainType = p.chainType
        /\ created.value.chainReference = NormalChainReference(p)
        /\ created.value.address = NormalAddress(p)

C5_Witness ==
  /\ CreateCalled
  /\ created.status = "returned"
  /\ params.value.chainReference = NumberValue(42161)
  /\ params.value.address = StringValue(<<"0", "x", "A", "b">>)
  /\ created.value.chainReference = <<164, 177>>
  /\ created.value.address = <<171>>

-----------------------------------------------------------------------------
(* C6 *)

\* C6: for every valid Address the encoding is 6 + chainReference.length +
\* address.length bytes long.
C6_EncodedLength ==
  (encoded.status = "returned" /\ ValidAddress(interopAddress.value)) =>
    Len(encoded.value) =
      6 + Len(interopAddress.value.chainReference) + Len(interopAddress.value.address)

C6_Witness ==
  /\ encoded.status = "returned"
  /\ ValidAddress(interopAddress.value)
  /\ Len(interopAddress.value.chainReference) = 255
  /\ Len(interopAddress.value.address) = 255
  /\ Len(encoded.value) = 516

-----------------------------------------------------------------------------
(* C7 *)

SameButVersion(a, b) ==
  /\ a.chainType = b.chainType
  /\ a.chainReference = b.chainReference
  /\ a.address = b.address

\* C7: two Addresses that agree on chainType, chainReference and address and
\* differ only in version have the same checksum.
C7_VersionIndependent ==
  ( /\ checksum.status = "returned"
    /\ otherChecksum.status = "returned"
    /\ SameButVersion(interopAddress.value, otherAddress.value) )
    => otherChecksum.value = checksum.value

C7_Witness ==
  /\ checksum.status = "returned"
  /\ otherChecksum.status = "returned"
  /\ SameButVersion(interopAddress.value, otherAddress.value)
  /\ interopAddress.value.version = 1
  /\ otherAddress.value.version = 2
  /\ created.status = "returned"

-----------------------------------------------------------------------------
(* C8 *)

UpperHexChars == {HexUpper[k] : k \in 1..16}

\* C8: for every valid Address the hashed bytes are the encoding without its
\* first 2 bytes, and the checksum is the first 4 bytes of the 32-byte digest
\* of those bytes as exactly 8 uppercase hex characters without a prefix.
C8_ChecksumOfEncodingTail ==
  ( /\ checksum.status = "returned"
    /\ encoded.status = "returned"
    /\ ValidAddress(interopAddress.value) ) =>
    LET hashed == checksumInput.value
        digest == keccak256(hashed)
    IN  /\ hashed = SubSeq(encoded.value, 3, Len(encoded.value))
        /\ Len(digest) = 32
        /\ Len(checksum.value) = 8
        /\ \A i \in 1..8 : checksum.value[i] \in UpperHexChars
        /\ \A i \in 1..4 :
              16 * HexValue(checksum.value[2 * i - 1]) + HexValue(checksum.value[2 * i])
                = digest[i]

C8_Witness ==
  /\ checksum.status = "returned"
  /\ encoded.status = "returned"
  /\ ValidAddress(interopAddress.value)
  /\ created.status = "returned"
  /\ Len(checksumInput.value) > 4
  /\ \E i \in 1..8 : checksum.value[i] \in {"A", "B", "C", "D", "E", "F"}

-----------------------------------------------------------------------------
(* C9 *)

\* bytes is the shortest big-endian byte sequence of value n
MinimalBigEndian(bytes, n) ==
  /\ BigEndianValue(bytes) = n
  /\ n > 0 => bytes[1] # 0
  /\ n = 0 => bytes = <<>>
  /\ n = 1 => bytes = <<1>>
  /\ n = 137 => bytes = <<137>>
  /\ n = 42161 => bytes = <<164, 177>>

\* C9: numberToMinBytes(n) is the shortest big-endian byte sequence of value
\* n, empty for n = 0, both when called directly and when the builder
\* normalizes a numeric chainReference.
C9_MinimalBytes ==
  /\ ( /\ utilCall.status = "given"
       /\ utilCall.value.fn = "numberToMinBytes"
       /\ utilResult.status = "returned" )
       => MinimalBigEndian(utilResult.value, utilCall.value.integer)
  /\ ( /\ CreateCalled
       /\ created.status = "returned"
       /\ params.value.chainReference.type = "number" )
       => MinimalBigEndian(created.value.chainReference,
                           params.value.chainReference.number)

C9_Witness ==
  /\ CreateCalled
  /\ created.status = "returned"
  /\ params.value.chainReference = NumberValue(65536)
  /\ created.value.chainReference = <<1, 0, 0>>

-----------------------------------------------------------------------------
(* C10 *)

\* the last length digits of num, zero-filled on the left: num mod 256^length
LowBytes(num, length) ==
  LET padded == [i \in 1..length |-> 0] \o num
  IN  SubSeq(padded, Len(padded) - length + 1, Len(padded))

NumberToBytesCalled ==
  /\ utilCall.status = "given"
  /\ utilCall.value.fn = "numberToBytes"
  /\ utilResult.status = "returned"

\* C10: numberToBytes(num, length) is exactly length bytes, the big-endian
\* representation of num mod 256^length, for every length and every num.
C10_BigEndianFixedWidth ==
  NumberToBytesCalled =>
    /\ Len(utilResult.value) = utilCall.value.length
    /\ utilResult.value = LowBytes(utilCall.value.num, utilCall.value.length)

-----------------------------------------------------------------------------
(* C11 *)

BytesToHexCalled ==
  /\ utilCall.status = "given"
  /\ utilCall.value.fn = "bytesToHex"
  /\ utilResult.status = "returned"

HasPrefix0x(str) == Len(str) >= 2 /\ str[1] = "0" /\ str[2] = "x"

\* C11: hexToBytes(bytesToHex(b, false)) = b and hexToBytes(bytesToHex(b, true))
\* = b; the output of bytesToHex has 2 characters per byte, all in 0-9 A-F,
\* after the prefix, and starts with 0x exactly when the prefix argument is
\* true or left out.
C11_HexRoundTrip ==
  BytesToHexCalled =>
    LET out == utilResult.value
        data == utilCall.value.data
        wantPrefix == utilCall.value.prefixArg # "false"
        body == IF wantPrefix THEN SubSeq(out, 3, Len(out)) ELSE out
    IN  /\ HasPrefix0x(out) <=> wantPrefix
        /\ Len(body) = 2 * Len(data)
        /\ \A i \in 1..Len(body) : body[i] \in UpperHexChars
        /\ roundTrip # Pending => roundTrip = Returned(data)

C11_Witness ==
  /\ BytesToHexCalled
  /\ utilCall.value.data = <<171, 255>>
  /\ utilCall.value.prefixArg = "false"
  /\ utilResult.value = <<"A", "B", "F", "F">>
  /\ roundTrip = Returned(<<171, 255>>)

-----------------------------------------------------------------------------
(* C12 *)

\* the value of a hex digit of either case, -1 for any other character
DigitValue(c) ==
  CASE c = "0" -> 0 [] c = "1" -> 1 [] c = "2" -> 2 [] c = "3" -> 3
    [] c = "4" -> 4 [] c = "5" -> 5 [] c = "6" -> 6 [] c = "7" -> 7
    [] c = "8" -> 8 [] c = "9" -> 9
    [] c \in {"a", "A"} -> 10 [] c \in {"b", "B"} -> 11
    [] c \in {"c", "C"} -> 12 [] c \in {"d", "D"} -> 13
    [] c \in {"e", "E"} -> 14 [] c \in {"f", "F"} -> 15
    [] OTHER -> 0 - 1

\* the string without one leading 0x or 0X
WithoutPrefix(str) ==
  IF Len(str) >= 2 /\ str[1] = "0" /\ str[2] \in {"x", "X"}
  THEN SubSeq(str, 3, Len(str)) ELSE str

\* an even number of hex digits
EvenHexDigits(str) ==
  Len(str) % 2 = 0 /\ \A i \in 1..Len(str) : DigitValue(str[i]) >= 0

\* the bytes that the digits denote, whatever their letter case
DigitsToBytes(str) ==
  [i \in 1..(Len(str) \div 2) |->
     16 * DigitValue(str[2 * i - 1]) + DigitValue(str[2 * i])]

HexToBytesCalled ==
  /\ utilCall.status = "given"
  /\ utilCall.value.fn = "hexToBytes"
  /\ utilResult # Pending

\* C12: for an even-length string h of hex digits, hexToBytes of h, of 0x h and
\* of 0X h is the bytes that the digits of h denote whatever their case;
\* exactly one prefix is stripped, and an odd digit count or a non-hex
\* character after stripping fails with the decode error.
C12_PrefixAndCase ==
  HexToBytesCalled =>
    LET h == WithoutPrefix(utilCall.value.hex)
    IN  IF EvenHexDigits(h) THEN utilResult = Returned(DigitsToBytes(h))
        ELSE utilResult = Thrown(DecodeError)

C12_Witness ==
  /\ HexToBytesCalled
  /\ utilCall.value.hex = <<"0", "X", "a", "A">>
  /\ utilResult = Returned(<<170>>)

-----------------------------------------------------------------------------
(* C13 *)

\* C13: createAndEncode(params) returns the bytes that the encoder returns
\* for the Address the builder returns, throws the builder's error unchanged
\* when the builder throws, and returns no bytes for params the builder
\* rejects.
C13_FacadeIsComposition ==
  (params.status = "given" /\ oneStep # Pending) =>
    /\ created.status = "thrown" => oneStep = created
    /\ (created.status = "returned" /\ encoded.status = "returned"
          /\ before = Absent) => oneStep = encoded
    /\ (created # Pending /\ oneStep.status = "returned") =>
          created.status = "returned"

C13_Witness ==
  /\ params.status = "given"
  /\ params.value.chainReference = NumberValue(1)
  /\ params.value.address.type = "string"
  /\ oneStep.status = "returned"
  /\ created.status = "returned"
  /\ encoded = oneStep

-----------------------------------------------------------------------------
(* C14 *)

\* C14: toInteroperableName returns the two strings unchanged with the
\* checksum of the Address, and formatInteroperableName is address, "@",
\* chain, "#", checksum verbatim, so that an empty address string gives a
\* result that begins with "@".
C14_NameAndFormat ==
  name.status = "returned" =>
    LET n == name.value
        la == Len(nameArgs.value.addressString)
        lc == Len(nameArgs.value.chainString)
    IN  /\ n.address = nameArgs.value.addressString
        /\ n.chain = nameArgs.value.chainString
        /\ n.checksum = checksum.value
        /\ formatted.status = "returned" =>
              LET f == formatted.value
              IN  /\ Len(f) = la + lc + 10
                  /\ SubSeq(f, 1, la) = nameArgs.value.addressString
                  /\ f[la + 1] = "@"
                  /\ SubSeq(f, la + 2, la + lc + 1) = nameArgs.value.chainString
                  /\ f[la + lc + 2] = "#"
                  /\ SubSeq(f, la + lc + 3, Len(f)) = checksum.value
                  /\ la = 0 => f[1] = "@"

C14_Witness ==
  /\ formatted.status = "returned"
  /\ nameArgs.value.addressString = <<>>
  /\ nameArgs.value.chainString = <<"e", "i", "p", "1", "5", "5", ":", "1">>
  /\ formatted.value[1] = "@"
  /\ created.status = "returned"

-----------------------------------------------------------------------------
(* C15 *)

\* C15: an Address returned by the builder is an independent immutable
\* value: a later write by the caller to a buffer that was passed in leaves
\* the fields of the Address as they were returned, the encoder and the
\* checksum return after the write what they returned before it, and no
\* operation of the library changes the caller's buffers.
C15_IndependentValue ==
  (params.status = "given" /\ created.status = "returned") =>
    /\ interopAddress.value = created.value
    /\ (before # Absent /\ encoded.status = "returned") =>
          encoded = before.value.encoded
    /\ (before # Absent /\ checksum.status = "returned") =>
          checksum = before.value.checksum
    /\ before = Absent => callerBuffer = params

-----------------------------------------------------------------------------
(* C16 *)

\* C16: a numeric chainReference of 0 is treated like an absent one: without
\* an address the builder fails with the both-empty error, and with an
\* address it returns the Address that the same params without
\* chainReference give, whose encoding has the length byte 0 at offset 4.
C16_ZeroIsAbsent ==
  (CreateCalled /\ params.value.chainReference = NumberValue(0)) =>
    LET p == params.value
        withoutReference == [p EXCEPT !.chainReference = Undefined]
    IN  /\ created = createInteroperableAddress(withoutReference)
        /\ (WellFormedAddress(p) /\ NormalAddress(p) = <<>>) =>
              created = Thrown(ErrBothEmpty)
        /\ created.status = "returned" =>
              /\ created.value.chainReference = <<>>
              /\ NormalAddress(p) # <<>>
              /\ encoded.status = "returned" => encoded.value[5] = 0

C16_Witness ==
  /\ CreateCalled
  /\ params.value.chainReference = NumberValue(0)
  /\ params.value.address = StringValue(<<"0", "x", "A", "b">>)
  /\ created.status = "returned"
  /\ encoded.status = "returned"
  /\ encoded.value = <<0, 1, 0, 2, 0, 1, 171>>

-----------------------------------------------------------------------------
(* C17 *)

\* the string is not an even number of hex digits after one optional prefix
MalformedHex(str) == ~EvenHexDigits(WithoutPrefix(str))

\* C17: a malformed hex address string makes the builder and createAndEncode
\* fail with the decode error and return nothing, whatever the chainType and
\* the chainReference are.
C17_DecodeErrorFirst ==
  ( /\ params.status = "given"
    /\ params.value.address.type = "string"
    /\ MalformedHex(params.value.address.string) ) =>
    /\ created # Pending => created = Thrown(DecodeError)
    /\ oneStep # Pending => oneStep = Thrown(DecodeError)
    /\ interopAddress = Absent
    /\ encoded = Pending

C17_Witness ==
  /\ params.status = "given"
  /\ params.value.address = StringValue(<<"0", "x", "g", "0">>)
  /\ params.value.chainType = 65536
  /\ params.value.chainReference.type = "Uint8Array"
  /\ Len(params.value.chainReference.bytes) = 256
  /\ created = Thrown(DecodeError)
  /\ oneStep = Thrown(DecodeError)

-----------------------------------------------------------------------------
(* C18 *)

\* C18: reading 2 bytes of version, 2 bytes of chainType, a length N, N
\* bytes, a length M and M bytes from the encoding of a valid Address gives
\* back its fields and uses up the whole encoding, so that the encoder is
\* injective: an Address whose fields were changed has another encoding.
C18_UniquelyParseable ==
  (encoded.status = "returned" /\ ValidAddress(interopAddress.value)) =>
    LET e == encoded.value
        a == interopAddress.value
    IN  /\ Len(e) >= 6
        /\ Len(e) >= 6 + e[5]
        /\ LET N == e[5]
               M == e[6 + N]
           IN  /\ Len(e) = 6 + N + M
               /\ 256 * e[1] + e[2] = a.version
               /\ 256 * e[3] + e[4] = a.chainType
               /\ SubSeq(e, 6, 5 + N) = a.chainReference
               /\ SubSeq(e, 7 + N, 6 + N + M) = a.address
        /\ (before # Absent /\ a # created.value) => encoded # before.value.encoded

C18_Witness ==
  /\ encoded.status = "returned"
  /\ ValidAddress(interopAddress.value)
  /\ before # Absent
  /\ interopAddress.value # created.value
  /\ Len(interopAddress.value.chainReference) = 255
  /\ Len(interopAddress.value.address) = 2

====
